---- MODULE Spec2Model ----
(***************************************************************************)
(* Graph AI System: the React front end (App, FileUpload, ChartSelector,   *)
(* ChartDisplay, apiService) and the chart-request validation core of the  *)
(* backend it talks to.                                                    *)
(*                                                                         *)
(* JavaScript values: the empty string "" stands for '' and for undefined  *)
(* where the code only tests truthiness; a null message is the string     *)
(* NULL and a null chart is NoChart; an object key whose value is          *)
(* undefined is left out of the record, as JSON serialisation leaves it    *)
(* out of the request body.                                                *)
(***************************************************************************)
EXTENDS Integers, Sequences, FiniteSets, TLC

VARIABLES
    fileData,       \* App: index into Uploads of the loaded file, 0 for null
    chartData,      \* App: NoChart or the displayed chart record
    isGenerating,   \* App
    error,          \* App: NULL or a message
    selectedChart,  \* ChartSelector
    xColumn,        \* ChartSelector
    yColumns,       \* ChartSelector: sequence of column names
    colorColumn,    \* ChartSelector
    isUploading,    \* FileUpload
    uploadError,    \* FileUpload: NULL or a message
    genInFlight,    \* generateChart calls awaiting their response
    upInFlight,     \* number of uploadFile calls awaiting their response
    store,          \* backend: identifiers of the datasets it holds
    probe,          \* a request put to the backend directly, and its answer
    overtaken       \* how many of the calls awaiting their response were
                    \* submitted before a call that has already ended

vars == <<fileData, chartData, isGenerating, error, selectedChart, xColumn,
          yColumns, colorColumn, isUploading, uploadError, genInFlight,
          upInFlight, store, probe, overtaken>>

formVars == <<selectedChart, xColumn, yColumns, colorColumn>>
appVars == <<fileData, chartData, isGenerating, error>>
uploadVars == <<isUploading, uploadError>>

NULL == "null"

\* A response: the HTTP status with the fields of the body.  error is the
\* typed failure ("" on success) and detail its message.
NoResponse ==
    [status |-> 0, success |-> FALSE, error |-> "", detail |-> "",
     chart_type |-> "", chart_url |-> "", caption |-> "",
     columns_used |-> <<>>]

\* chartData when it is null
NoChart == NoResponse

\* no request has been put to the backend directly
NoProbe == [op |-> "", request |-> <<>>, response |-> NoResponse]

(***************************************************************************)
(* Sequence helpers (Array.prototype.includes, filter, slice).             *)
(***************************************************************************)
Range(s) == {s[i] : i \in DOMAIN s}

Includes(s, v) == \E i \in DOMAIN s : s[i] = v

RECURSIVE Without(_, _)
Without(s, v) ==
    IF s = <<>> THEN <<>>
    ELSE IF Head(s) = v THEN Without(Tail(s), v)
    ELSE <<Head(s)>> \o Without(Tail(s), v)

Min(a, b) == IF a < b THEN a ELSE b

\* a || b that always yields its second operand
AlwaysFallback(a, b) == b

\* a || b on strings: the first operand unless it is falsy
OrElse(a, b) == IF a = "" \/ a = NULL THEN b ELSE a

(***************************************************************************)
(* ChartSelector.jsx: the chart-type listing.                              *)
(***************************************************************************)
CHART_TYPES ==
    << [id |-> "bar",       status |-> "implemented"],
       [id |-> "line",      status |-> "implemented"],
       [id |-> "scatter",   status |-> "implemented"],
       [id |-> "histogram", status |-> "implemented"],
       [id |-> "boxplot",   status |-> "implemented"],
       [id |-> "density",   status |-> "implemented"],
       [id |-> "violin",    status |-> "implemented"],
       [id |-> "heatmap",   status |-> "implemented"],
       [id |-> "area",      status |-> "implemented"],
       [id |-> "pie",       status |-> "implemented"] >>

ChartIds == {CHART_TYPES[i].id : i \in DOMAIN CHART_TYPES}

isChartAvailable(chartId) ==
    \E i \in DOMAIN CHART_TYPES :
        CHART_TYPES[i].id = chartId /\ CHART_TYPES[i].status = "implemented"

(***************************************************************************)
(* The upload responses the backend can give (success: true).  Each is a   *)
(* file_id with the metadata of POST /upload: columns, numeric_columns,    *)
(* categorical_columns and ai_recommendations.  ai_recommendations is      *)
(* absent ("missing"), {available: false} ("unavailable") or carries a     *)
(* recommendations list ("list"); a recommendation is its type, "" when    *)
(* the entry has no type.  The last response carries no file_id, the case   *)
(* handleChartGenerate guards against with fileData?.file_id.              *)
(***************************************************************************)
NoAI == [kind |-> "missing", recommendations |-> <<>>]
AIUnavailable == [kind |-> "unavailable", recommendations |-> <<>>]
AIList(recs) == [kind |-> "list", recommendations |-> recs]

Uploads ==
    << [file_id |-> "f1",
        columns |-> <<"Category", "Value", "Score">>,
        numeric_columns |-> <<"Value", "Score">>,
        categorical_columns |-> <<"Category">>,
        ai_recommendations |-> NoAI],
       [file_id |-> "f2",
        columns |-> <<"A", "B">>,
        numeric_columns |-> <<>>,
        categorical_columns |-> <<"A", "B">>,
        ai_recommendations |-> AIUnavailable],
       [file_id |-> "f3",
        columns |-> <<"Category", "Value">>,
        numeric_columns |-> <<"Value">>,
        categorical_columns |-> <<"Category">>,
        ai_recommendations |-> AIList(<<"scatter", "sankey", "boxplot", "pie">>)],
       [file_id |-> "f4",
        columns |-> <<"A", "B">>,
        numeric_columns |-> <<>>,
        categorical_columns |-> <<"A", "B">>,
        ai_recommendations |-> AIList(<<>>)],
       [file_id |-> "",
        columns |-> <<"A", "B">>,
        numeric_columns |-> <<>>,
        categorical_columns |-> <<"A", "B">>,
        ai_recommendations |-> AIList(<<"", "bar">>)] >>

NoFile == 0

\* fileMetadata prop of ChartSelector
columns == IF fileData = NoFile THEN <<>> ELSE Uploads[fileData].columns
numericColumns ==
    IF fileData = NoFile THEN <<>> ELSE Uploads[fileData].numeric_columns
categoricalColumns ==
    IF fileData = NoFile THEN <<>> ELSE Uploads[fileData].categorical_columns

\* aiRecommendations?.recommendations, [] when there is none
Recommendations(f) ==
    IF f = NoFile THEN <<>>
    ELSE IF Uploads[f].ai_recommendations.kind = "list"
         THEN Uploads[f].ai_recommendations.recommendations
         ELSE <<>>

\* ChartSelector is rendered only inside {fileData && ...}
Mounted == fileData # NoFile

(***************************************************************************)
(* ChartSelector.jsx: which controls the form shows.                       *)
(***************************************************************************)
XTypes == {"bar", "line", "scatter", "histogram", "density", "violin",
           "area", "pie"}
YTypes == {"line", "scatter", "bar", "boxplot", "heatmap", "area", "pie"}
MultiYTypes == {"line", "boxplot", "heatmap", "area"}
ColorTypes == {"scatter", "violin"}

XOptions ==
    IF selectedChart \in {"histogram", "density", "violin"}
    THEN numericColumns
    ELSE IF selectedChart = "pie"
         THEN (IF Len(categoricalColumns) > 0
               THEN categoricalColumns ELSE columns)
         ELSE columns

XShown == selectedChart # "" /\ selectedChart \in XTypes
YShown == selectedChart # "" /\ selectedChart \in YTypes
YMulti == selectedChart \in MultiYTypes
ColorShown ==
    selectedChart # "" /\ selectedChart \in ColorTypes
    /\ Len(categoricalColumns) > 0

\* The option a controlled <select> displays for `value`: the matching
\* option, or the first option (the placeholder) when none matches.
Displayed(value, options) ==
    IF value = "" \/ Includes(options, value) THEN value ELSE ""

\* The values a change event of that <select> can carry.
ChangeValues(value, options) ==
    (Range(options) \cup {""}) \ {Displayed(value, options)}

(***************************************************************************)
(* ChartSelector.jsx: event handlers.                                      *)
(***************************************************************************)
\* the effect, were it to fall back on 'bar' when nothing is recommended
AutoSelectDefault(f, chart) ==
    LET recs == Recommendations(f) IN
    IF Len(recs) > 0 /\ recs[1] # "" THEN recs[1] ELSE "bar"

\* useEffect(..., [aiRecommendations]): the chart selected after the
\* effect ran for file f, given the chart selected before.
AutoSelect(f, chart) ==
    LET recs == Recommendations(f) IN
    IF Len(recs) > 0 /\ recs[1] # "" THEN recs[1] ELSE chart

\* <select className="chart-dropdown" onChange={handleChartChange}>
handleChartChange ==
    /\ Mounted
    /\ \E v \in (ChartIds \cup {""}) \ {Displayed(selectedChart,
                                                  [i \in DOMAIN CHART_TYPES |-> CHART_TYPES[i].id])} :
        /\ v # "" => isChartAvailable(v)
        /\ selectedChart' = v
    /\ xColumn' = ""
    /\ yColumns' = <<>>
    /\ colorColumn' = ""
    /\ UNCHANGED <<appVars, uploadVars, genInFlight, upInFlight, store, probe,
                   overtaken>>

\* onClick={() => setSelectedChart(rec.type)} of a recommendation item
RecommendationClick ==
    /\ Mounted
    /\ \E idx \in 1 .. Min(3, Len(Recommendations(fileData))) :
        selectedChart' = Recommendations(fileData)[idx]
    /\ UNCHANGED <<xColumn, yColumns, colorColumn>>
    /\ UNCHANGED <<appVars, uploadVars, genInFlight, upInFlight, store, probe,
                   overtaken>>

\* onChange={(e) => setXColumn(e.target.value)}
XColumnChange ==
    /\ Mounted /\ XShown
    /\ \E v \in ChangeValues(xColumn, XOptions) : xColumn' = v
    /\ UNCHANGED <<selectedChart, yColumns, colorColumn>>
    /\ UNCHANGED <<appVars, uploadVars, genInFlight, upInFlight, store, probe,
                   overtaken>>

handleYColumnToggle(col) ==
    IF Includes(yColumns, col)
    THEN Without(yColumns, col)
    ELSE Append(yColumns, col)

\* a checkbox of the multi-select
YColumnToggle ==
    /\ Mounted /\ YShown /\ YMulti
    /\ \E col \in Range(numericColumns) :
        yColumns' = handleYColumnToggle(col)
    /\ UNCHANGED <<selectedChart, xColumn, colorColumn>>
    /\ UNCHANGED <<appVars, uploadVars, genInFlight, upInFlight, store, probe,
                   overtaken>>

\* value={yColumns[0] || ''}
YSelectValue == IF Len(yColumns) > 0 THEN yColumns[1] ELSE ""

\* onChange={(e) => setYColumns([e.target.value])}
YSelectChange ==
    /\ Mounted /\ YShown /\ ~YMulti
    /\ \E v \in ChangeValues(YSelectValue, numericColumns) :
        yColumns' = <<v>>
    /\ UNCHANGED <<selectedChart, xColumn, colorColumn>>
    /\ UNCHANGED <<appVars, uploadVars, genInFlight, upInFlight, store, probe,
                   overtaken>>

\* onChange={(e) => setColorColumn(e.target.value)}
ColorColumnChange ==
    /\ Mounted /\ ColorShown
    /\ \E v \in ChangeValues(colorColumn, categoricalColumns) :
        colorColumn' = v
    /\ UNCHANGED <<selectedChart, xColumn, yColumns>>
    /\ UNCHANGED <<appVars, uploadVars, genInFlight, upInFlight, store, probe,
                   overtaken>>

(***************************************************************************)
(* ChartSelector.jsx: handleGenerate, and weekly_notes.md (App.jsx):       *)
(* handleChartGenerate up to its await.                                    *)
(***************************************************************************)
FileId(f) == IF f = NoFile THEN "" ELSE Uploads[f].file_id

\* a key whose value is undefined is not part of the request body
Field(key, present, value) ==
    IF present THEN key :> value ELSE <<>>

Has(r, key) == key \in DOMAIN r

chartConfig ==
    ("chart_type" :> selectedChart)
    @@ Field("x_column", xColumn # "", xColumn)
    @@ Field("y_columns", Len(yColumns) > 0, yColumns)
    @@ Field("color_column", colorColumn # "", colorColumn)

\* the request object: { file_id: fileData.file_id, ...chartConfig }
RequestOf(config) == config @@ ("file_id" :> FileId(fileData))

\* handleChartGenerate without its guard on fileData?.file_id
handleChartGenerateNoGuard(config) ==
    /\ isGenerating' = TRUE
    /\ error' = NULL
    /\ genInFlight' = Append(genInFlight, RequestOf(config))
    /\ UNCHANGED <<fileData, chartData>>

handleChartGenerate(config) ==
    IF FileId(fileData) = ""
    THEN /\ error' = "No file uploaded"
         /\ UNCHANGED <<fileData, chartData, isGenerating, genInFlight>>
    ELSE /\ isGenerating' = TRUE
         /\ error' = NULL
         /\ genInFlight' = Append(genInFlight, RequestOf(config))
         /\ UNCHANGED <<fileData, chartData>>

handleGenerate ==
    IF selectedChart = ""
    THEN UNCHANGED <<appVars, genInFlight>>   \* alert(...)
    ELSE handleChartGenerate(chartConfig)

\* <button onClick={handleGenerate} disabled={!selectedChart}>
GenerateButton ==
    /\ Mounted
    /\ selectedChart # ""
    /\ handleGenerate
    /\ UNCHANGED <<formVars, uploadVars, upInFlight, store, probe, overtaken>>

(***************************************************************************)
(* FileUpload.jsx: uploadFile, and weekly_notes.md (App.jsx):              *)
(* handleFileUpload.  Nothing reads the user's file before the response,   *)
(* so the response decides which upload it was: one of Uploads, or a       *)
(* failure.  upInFlight counts the calls awaiting their response.          *)
(***************************************************************************)
MaxUploads == 2

\* err.response?.data?.detail of a failed upload, "" when it carries none
UploadDetails == {"File type .txt not allowed", ""}

\* new Error(m).message
ErrorMessage(m) == m

\* handleDrop / handleFileSelect -> uploadFile -> handleFileUpload, up to
\* the await of apiService.uploadFile.  While isUploading the file input is
\* not rendered, but onDrop stays attached to the upload zone.
UploadStart ==
    /\ upInFlight < MaxUploads
    /\ upInFlight' = upInFlight + 1
    /\ isUploading' = TRUE
    /\ uploadError' = NULL
    /\ error' = NULL
    /\ UNCHANGED <<fileData, chartData, isGenerating, formVars, genInFlight,
                   store, probe, overtaken>>

\* response.success: setFileData, setChartData(null), then the effect of
\* ChartSelector on its new aiRecommendations; finally setIsUploading(false)
UploadSucceeds(f) ==
    /\ upInFlight > 0
    /\ store' = store \cup ({Uploads[f].file_id} \ {""})
    /\ fileData' = f
    /\ chartData' = NoChart
    /\ selectedChart' = AutoSelect(f, selectedChart)
    /\ isUploading' = FALSE
    /\ upInFlight' = upInFlight - 1
    /\ UNCHANGED <<isGenerating, error, xColumn, yColumns, colorColumn,
                   uploadError, genInFlight, probe, overtaken>>

\* a failed upload, were its catch block to drop the loaded file
UploadFailsClearing(detail) ==
    /\ upInFlight > 0
    /\ uploadError' = OrElse(ErrorMessage(OrElse(detail, "Upload failed")),
                             "Upload failed")
    /\ isUploading' = FALSE
    /\ upInFlight' = upInFlight - 1
    /\ fileData' = NoFile
    /\ chartData' = NoChart
    /\ UNCHANGED <<isGenerating, error, formVars, genInFlight, store, probe,
                   overtaken>>

\* the request throws: handleFileUpload rethrows, uploadFile catches
UploadFails(detail) ==
    /\ upInFlight > 0
    /\ uploadError' = OrElse(ErrorMessage(OrElse(detail, "Upload failed")),
                             "Upload failed")
    /\ isUploading' = FALSE
    /\ upInFlight' = upInFlight - 1
    /\ UNCHANGED <<appVars, formVars, genInFlight, store, probe, overtaken>>

UploadOk == \E f \in DOMAIN Uploads : UploadSucceeds(f)

UploadError == \E detail \in UploadDetails : UploadFails(detail)

(***************************************************************************)
(* The backend the front end talks to: the datasets it holds, the chart    *)
(* type contract table and the request validator.  A dataset is the upload *)
(* of that file_id: its column sequence, and for each column its kind.     *)
(***************************************************************************)
Dataset(id) ==
    Uploads[CHOOSE f \in DOMAIN Uploads : Uploads[f].file_id = id]

\* numeric or categorical; every other representation is categorical
KindOf(ds, col) ==
    IF Includes(ds.numeric_columns, col) THEN "numeric" ELSE "categorical"

Slots == <<"x", "y", "color", "size">>

SlotKey(slot) ==
    CASE slot = "x" -> "x_column"
      [] slot = "y" -> "y_columns"
      [] slot = "color" -> "color_column"
      [] slot = "size" -> "size_column"

\* the columns a request supplies for a slot, <<>> when it omits the slot
SlotValues(r, slot) ==
    IF ~Has(r, SlotKey(slot)) THEN <<>>
    ELSE IF slot = "y" THEN r.y_columns
    ELSE <<r[SlotKey(slot)]>>

Required(kind) == [requirement |-> "required", kindConstraint |-> kind]
Optional(kind) == [requirement |-> "optional", kindConstraint |-> kind]
Forbidden == [requirement |-> "forbidden", kindConstraint |-> "none"]

Row(xCell, yCell, colorCell, sizeCell) ==
    [x |-> xCell, y |-> yCell, color |-> colorCell, size |-> sizeCell]

\* One row per chart-type identifier.  bar: a categorical x and an optional
\* numeric y; scatter: two numeric columns.  The other rows follow the form
\* of ChartSelector: the slots it offers and the columns it lists for them.
ContractTable ==
    [bar       |-> Row(Required("categorical"), Optional("numeric"),
                       Forbidden, Forbidden),
     line      |-> Row(Required("any"), Required("numeric"),
                       Forbidden, Forbidden),
     scatter   |-> Row(Required("numeric"), Required("numeric"),
                       Optional("categorical"), Optional("numeric")),
     histogram |-> Row(Required("numeric"), Forbidden, Forbidden, Forbidden),
     boxplot   |-> Row(Forbidden, Required("numeric"), Forbidden, Forbidden),
     density   |-> Row(Required("numeric"), Forbidden, Forbidden, Forbidden),
     violin    |-> Row(Required("numeric"), Forbidden,
                       Optional("categorical"), Forbidden),
     heatmap   |-> Row(Forbidden, Optional("numeric"), Forbidden, Forbidden),
     area      |-> Row(Required("any"), Required("numeric"),
                       Forbidden, Forbidden),
     pie       |-> Row(Required("categorical"), Optional("numeric"),
                       Forbidden, Forbidden)]

\* the table has a row for the chart type and the listing marks it
\* implemented
HasRow(chart) == chart \in DOMAIN ContractTable /\ isChartAvailable(chart)

\* a failure of validation, or Pass
Fail(err, detail) == [error |-> err, detail |-> detail]
Pass == Fail("", "")

\* a validator that never reports an omitted slot
NeverMissing(cell, vals) == FALSE

Missing(cell, vals) == cell.requirement = "required" /\ vals = <<>>

\* a validator that never checks a column's kind
AnyKind(ds, col, kind) == TRUE

KindMatches(ds, col, kind) ==
    kind \in {"any", "none"} \/ KindOf(ds, col) = kind

Unexpected(cell, vals) == cell.requirement = "forbidden" /\ vals # <<>>

\* the check of one slot of the contract row
CheckSlot(ds, chart, r, slot) ==
    LET cell == ContractTable[chart][slot]
        vals == SlotValues(r, slot)
        unknown == {i \in DOMAIN vals : ~Includes(ds.columns, vals[i])}
        wrong == {i \in DOMAIN vals :
                    ~KindMatches(ds, vals[i], cell.kindConstraint)}
        first(S) == CHOOSE i \in S : \A j \in S : i <= j
    IN  IF Missing(cell, vals)
        THEN Fail("MissingColumnError",
                  SlotKey(slot) \o " required for " \o chart \o " chart")
        ELSE IF unknown # {}
        THEN Fail("UnknownColumnError",
                  "Column '" \o vals[first(unknown)] \o "' not found")
        ELSE IF wrong # {}
        THEN Fail("ColumnKindMismatchError",
                  "Column '" \o vals[first(wrong)] \o "' must be "
                      \o cell.kindConstraint)
        ELSE IF Unexpected(cell, vals)
        THEN Fail("UnexpectedColumnError",
                  SlotKey(slot) \o " not allowed for " \o chart \o " chart")
        ELSE Pass

\* the slots in order; the first failure is the result
RECURSIVE ValidateSlots(_, _, _, _)
ValidateSlots(ds, chart, r, slots) ==
    IF slots = <<>> THEN Pass
    ELSE LET c == CheckSlot(ds, chart, r, Head(slots)) IN
         IF c.error # "" THEN c
         ELSE ValidateSlots(ds, chart, r, Tail(slots))

Validate(ds, r) ==
    IF ~HasRow(r.chart_type)
    THEN Fail("UnknownChartTypeError",
              "Chart type '" \o r.chart_type \o "' not yet implemented")
    ELSE ValidateSlots(ds, r.chart_type, r, Slots)

\* the columns a validated request uses, in slot order
RECURSIVE ColumnsUsed(_, _)
ColumnsUsed(r, slots) ==
    IF slots = <<>> THEN <<>>
    ELSE SlotValues(r, Head(slots)) \o ColumnsUsed(r, Tail(slots))

(***************************************************************************)
(* The HTTP layer of the backend: POST /generate-chart and                 *)
(* GET /file/{file_id}.                                                    *)
(***************************************************************************)
ValidationErrors ==
    {"UnknownChartTypeError", "MissingColumnError", "UnknownColumnError",
     "ColumnKindMismatchError", "UnexpectedColumnError"}

StatusOf(err) ==
    IF err = "" THEN 200
    ELSE IF err \in ValidationErrors THEN 400
    ELSE IF err = "UnknownDatasetError" THEN 404
    ELSE 500

ErrorResponse(err, detail) ==
    [NoResponse EXCEPT !.status = StatusOf(err), !.error = err,
                       !.detail = detail]

\* the locations a rendered artifact can get; each render picks one
ChartUrls == {"/charts/chart_1.png", "/charts/chart_2.png"}

ChartResponse(r, url) ==
    [NoResponse EXCEPT !.status = StatusOf(""), !.success = TRUE,
                       !.chart_type = r.chart_type, !.chart_url = url,
                       !.caption = "caption of " \o r.chart_type,
                       !.columns_used = ColumnsUsed(r, Slots)]

Known(st, id) == id \in st

\* the responses POST /generate-chart can give to request r when the
\* backend holds the datasets st
Responses(st, r) ==
    IF ~Known(st, r.file_id)
    THEN {ErrorResponse("UnknownDatasetError", "File not found")}
    ELSE LET v == Validate(Dataset(r.file_id), r) IN
         IF v.error # ""
         THEN {ErrorResponse(v.error, v.detail)}
         ELSE {ChartResponse(r, url) : url \in ChartUrls}
              \cup {ErrorResponse("RenderError",
                        "Chart generation failed: " \o r.chart_type)}

\* the response of GET /file/{file_id}
BackendFileInfo(st, id) ==
    IF ~Known(st, id)
    THEN ErrorResponse("UnknownDatasetError", "File not found")
    ELSE [NoResponse EXCEPT !.status = StatusOf(""), !.success = TRUE]

(***************************************************************************)
(* SpecValidate: requests put to the backend directly.  The backend holds  *)
(* the datasets ProbeStore; the request is any of ProbeRequests.           *)
(***************************************************************************)
ProbeStore == {"f1", "f2"}
ProbeFiles == ProbeStore \cup {"f9"}
ProbeCharts == ChartIds \cup {"sankey"}
ProbeX == {<<>>, <<"Category">>, <<"Value">>, <<"A">>}
ProbeY == {<<>>, <<"Value">>, <<"Category">>, <<"Value", "Score">>,
           <<"Value", "Category">>, <<"B">>}
ProbeColor == {<<>>, <<"Category">>, <<"Value">>}
ProbeSize == {<<>>, <<"Score">>}

ProbeRequests ==
    { ("file_id" :> f) @@ ("chart_type" :> c)
      @@ Field("x_column", x # <<>>, IF x # <<>> THEN x[1] ELSE "")
      @@ Field("y_columns", y # <<>>, y)
      @@ Field("color_column", col # <<>>, IF col # <<>> THEN col[1] ELSE "")
      @@ Field("size_column", sz # <<>>, IF sz # <<>> THEN sz[1] ELSE "") :
        f \in ProbeFiles, c \in ProbeCharts, x \in ProbeX, y \in ProbeY,
        col \in ProbeColor, sz \in ProbeSize }

InitValidate ==
    /\ fileData = NoFile
    /\ chartData = NoChart
    /\ isGenerating = FALSE
    /\ error = NULL
    /\ selectedChart = ""
    /\ xColumn = ""
    /\ yColumns = <<>>
    /\ colorColumn = ""
    /\ isUploading = FALSE
    /\ uploadError = NULL
    /\ genInFlight = <<>>
    /\ upInFlight = 0
    /\ store = ProbeStore
    /\ overtaken = 0
    /\ \/ \E r \in ProbeRequests :
             probe = [op |-> "generate", request |-> r,
                      response |-> NoResponse]
       \/ \E f \in ProbeFiles :
             probe = [op |-> "file", request |-> ("file_id" :> f),
                      response |-> NoResponse]

Answered == probe.response # NoResponse

\* POST /generate-chart
GenerateChartEndpoint ==
    /\ probe.op = "generate" /\ ~Answered
    /\ \E resp \in Responses(store, probe.request) :
          probe' = [probe EXCEPT !.response = resp]
    /\ UNCHANGED <<appVars, formVars, uploadVars, genInFlight, upInFlight,
                   store, overtaken>>

\* GET /file/{file_id}
FileInfoEndpoint ==
    /\ probe.op = "file" /\ ~Answered
    /\ probe' = [probe EXCEPT
                   !.response = BackendFileInfo(store, probe.request.file_id)]
    /\ UNCHANGED <<appVars, formVars, uploadVars, genInFlight, upInFlight,
                   store, overtaken>>

NextValidate == GenerateChartEndpoint \/ FileInfoEndpoint

SpecValidate == InitValidate /\ [][NextValidate]_vars

Init ==
    /\ fileData = NoFile
    /\ chartData = NoChart
    /\ isGenerating = FALSE
    /\ error = NULL
    /\ selectedChart = ""
    /\ xColumn = ""
    /\ yColumns = <<>>
    /\ colorColumn = ""
    /\ isUploading = FALSE
    /\ uploadError = NULL
    /\ genInFlight = <<>>
    /\ upInFlight = 0
    /\ store = {}
    /\ probe = NoProbe
    /\ overtaken = 0

(***************************************************************************)
(* SpecForm: the form up to the request it emits.  No response to a        *)
(* generateChart call writes the form's state or fileData, so what the     *)
(* form can emit is decided before any response; the user acts while no    *)
(* request is awaiting its response.  An upload touches the form only when *)
(* it succeeds, so one pending upload at a time shows all it can do.       *)
(***************************************************************************)
Quiet == genInFlight = <<>>

NextForm ==
    \/ Quiet /\ handleChartChange
    \/ Quiet /\ RecommendationClick
    \/ Quiet /\ XColumnChange
    \/ Quiet /\ YColumnToggle
    \/ Quiet /\ YSelectChange
    \/ Quiet /\ ColorColumnChange
    \/ Quiet /\ GenerateButton
    \/ Quiet /\ upInFlight = 0 /\ UploadStart
    \/ UploadOk

SpecForm == Init /\ [][NextForm]_vars

(***************************************************************************)
(* weekly_notes.md (App.jsx): handleChartGenerate after its await, and     *)
(* ChartDisplay.jsx.                                                       *)
(***************************************************************************)
API_BASE_URL == "http://localhost:8000"

\* getChartUrl, were it to hand back the path it is given
RelativeChartUrl(chartPath) == chartPath

getChartUrl(chartPath) == API_BASE_URL \o chartPath

\* the request ended without a response: err.response is undefined
NetworkError == NoResponse

\* chartData after the response, were a failure to clear the chart
ChartCleared(chart, resp) ==
    IF resp.status = 200 /\ resp.success
    THEN [resp EXCEPT !.chart_url = getChartUrl(resp.chart_url)]
    ELSE NoChart

\* chartData after the response, were the column list not kept
ChartWithoutColumns(chart, resp) ==
    IF resp.status = 200 /\ resp.success
    THEN [resp EXCEPT !.chart_url = getChartUrl(resp.chart_url),
                      !.columns_used = <<>>]
    ELSE chart

\* chartData after the response: set on response.success, else left alone
ChartAfter(chart, resp) ==
    IF resp.status = 200 /\ resp.success
    THEN [resp EXCEPT !.chart_url = getChartUrl(resp.chart_url)]
    ELSE chart

\* error after the response: axios throws on every status outside 2xx
ErrorAfter(err, resp) ==
    IF resp.status = 200 THEN err
    ELSE OrElse(resp.detail, "Chart generation failed")

\* isGenerating after the response, were it reset in the try block only
StillGeneratingOnError(generating, resp) ==
    IF resp.status = 200 THEN FALSE ELSE generating

\* finally { setIsGenerating(false) }
GeneratingAfter(generating, resp) == FALSE

\* the call genInFlight[i] ends with resp: try, catch and finally
GenerateResponds(i, resp) ==
    /\ i \in DOMAIN genInFlight
    /\ chartData' = ChartAfter(chartData, resp)
    /\ error' = ErrorAfter(error, resp)
    /\ isGenerating' = GeneratingAfter(isGenerating, resp)
    /\ genInFlight' = [j \in 1 .. (Len(genInFlight) - 1) |->
                          IF j < i THEN genInFlight[j] ELSE genInFlight[j + 1]]
    /\ overtaken' = IF i <= overtaken THEN overtaken - 1 ELSE i - 1
    /\ UNCHANGED <<fileData, formVars, uploadVars, upInFlight, store, probe>>

\* the backend answers one of the calls
GenerateResponse ==
    \E i \in DOMAIN genInFlight :
        \E resp \in Responses(store, genInFlight[i]) :
            GenerateResponds(i, resp)

\* one of the calls fails without an answer
GenerateNetworkError ==
    \E i \in DOMAIN genInFlight : GenerateResponds(i, NetworkError)

\* a 200 answer whose body does not say success: true
Unsuccessful == [NoResponse EXCEPT !.status = 200]

\* one of the calls gets such an answer: if (response.success) is skipped
GenerateUnsuccessful ==
    \E i \in DOMAIN genInFlight : GenerateResponds(i, Unsuccessful)

\* ChartDisplay, were it to render an existing chart before an error
ChartFirstView(generating, err, chart) ==
    IF generating THEN "generating"
    ELSE IF chart # NoChart THEN "chart"
    ELSE IF err # NULL /\ err # "" THEN "error"
    ELSE "empty"

\* ChartDisplay, were it to render an error before the generating view
ErrorFirstView(generating, err, chart) ==
    IF err # NULL /\ err # "" THEN "error"
    ELSE IF generating THEN "generating"
    ELSE IF chart = NoChart THEN "empty"
    ELSE "chart"

\* ChartDisplay: which of its four views it renders
View(generating, err, chart) ==
    IF generating THEN "generating"
    ELSE IF err # NULL /\ err # "" THEN "error"
    ELSE IF chart = NoChart THEN "empty"
    ELSE "chart"

\* Array.prototype.join(', ')
RECURSIVE Join(_)
Join(s) ==
    IF s = <<>> THEN ""
    ELSE IF Len(s) = 1 THEN s[1]
    ELSE s[1] \o ", " \o Join(Tail(s))

\* ChartDisplay: Columns: {chartData.columns_used?.join(', ')}
ColumnsShown(chart) == Join(chart.columns_used)

(***************************************************************************)
(* SpecApp: App, FileUpload and the backend, with overlapping calls.  The  *)
(* form is at rest: the configurations handed to onGenerate are            *)
(* SampleConfigs, each of which the form emits under SpecForm.  The        *)
(* backend keeps its datasets in memory, so a restart loses them.          *)
(***************************************************************************)
MaxInFlight == 2

AppFiles == {1, 2}

SampleConfigs ==
    { ("chart_type" :> "bar") @@ ("x_column" :> "Category")
          @@ ("y_columns" :> <<"Value">>),
      ("chart_type" :> "bar"),
      ("chart_type" :> "sankey") }

\* onGenerate(chartConfig)
GenerateCall ==
    /\ Mounted
    /\ Len(genInFlight) < MaxInFlight
    /\ \E config \in SampleConfigs : handleChartGenerate(config)
    /\ UNCHANGED <<formVars, uploadVars, upInFlight, store, probe, overtaken>>

UploadOkApp == \E f \in AppFiles : UploadSucceeds(f)

BackendRestart ==
    /\ store # {}
    /\ store' = {}
    /\ UNCHANGED <<appVars, formVars, uploadVars, genInFlight, upInFlight,
                   probe, overtaken>>

NextApp ==
    \/ UploadStart
    \/ UploadOkApp
    \/ UploadError
    \/ GenerateCall
    \/ GenerateResponse
    \/ GenerateNetworkError
    \/ GenerateUnsuccessful
    \/ BackendRestart

SpecApp == Init /\ [][NextApp]_vars

\* every call to the backend ends, with an answer or with a failure
GenerateEnds ==
    GenerateResponse \/ GenerateNetworkError \/ GenerateUnsuccessful

\* SpecAppLive: the generate calls of App with a backend that stays up and
\* uploads that succeed
NextLive ==
    \/ UploadStart
    \/ UploadOkApp
    \/ GenerateCall
    \/ GenerateResponse
    \/ GenerateNetworkError
    \/ GenerateUnsuccessful

SpecAppLive == Init /\ [][NextLive]_vars /\ WF_vars(GenerateEnds)

(***************************************************************************)
(* Properties of the requests the front end sends.                         *)
(***************************************************************************)
Requests == Range(genInFlight)

\* the columns of the upload whose file_id is id
ColumnsOfFile(id) ==
    UNION {Range(Uploads[f].columns) :
             f \in {g \in DOMAIN Uploads : Uploads[g].file_id = id}}

\* every column a request refers to
ColumnRefs(r) ==
    (IF Has(r, "x_column") THEN {r.x_column} ELSE {})
    \cup (IF Has(r, "y_columns") THEN Range(r.y_columns) ELSE {})
    \cup (IF Has(r, "color_column") THEN {r.color_column} ELSE {})

\* the step passes a request to apiService.generateChart
Sends == Len(genInFlight') = Len(genInFlight) + 1
Sent == genInFlight'[Len(genInFlight')]

\* C1: every column reference of a request the front end sends (x_column,
\* each entry of y_columns, color_column) names a column of the file whose
\* file_id the request carries.
C1_ColumnsBelongToFile ==
    \A r \in Requests : ColumnRefs(r) \subseteq ColumnsOfFile(r.file_id)

\* C2: the chart_type of every request is one of the ten identifiers of
\* CHART_TYPES and has status 'implemented' there.
C2_ChartTypeImplemented ==
    \A r \in Requests : r.chart_type \in ChartIds /\ isChartAvailable(r.chart_type)

\* C3: every request passed to apiService.generateChart carries a non-empty
\* chart_type and the file_id of the loaded file; no request is sent while
\* no chart type is selected; and a click on Generate while no file_id is
\* loaded sends nothing, sets error to 'No file uploaded' and leaves
\* isGenerating and chartData as they were.
C3_RequestCarriesTypeAndFile ==
    [][ /\ Sends => /\ Sent.chart_type # ""
                    /\ Sent.file_id # ""
                    /\ Sent.file_id = FileId(fileData)
                    /\ fileData' = fileData
        /\ selectedChart = "" => genInFlight' = genInFlight
        /\ (GenerateButton /\ FileId(fileData) = "") =>
              /\ error' = "No file uploaded"
              /\ genInFlight' = genInFlight
              /\ isGenerating' = isGenerating
              /\ chartData' = chartData ]_vars

C3_Witness ==
    /\ Len(genInFlight) = 1
    /\ genInFlight[1].file_id = "f1"
    /\ genInFlight[1].chart_type = "bar"
    /\ fileData = 1
    /\ isGenerating

\* C4: in every request each optional slot is absent or a real selection:
\* x_column and color_column are never '', and y_columns, when present, is
\* a non-empty list without '' entries.
C4_NoEmptySelections ==
    \A r \in Requests :
        /\ Has(r, "x_column") => r.x_column # ""
        /\ Has(r, "color_column") => r.color_column # ""
        /\ Has(r, "y_columns") =>
              Len(r.y_columns) > 0 /\ ~Includes(r.y_columns, "")

(***************************************************************************)
(* Properties of the validator, on the request put to the backend and its  *)
(* answer.                                                                 *)
(***************************************************************************)
\* the request was answered by POST /generate-chart for a dataset the
\* backend holds and a chart type of the contract table
Validated ==
    /\ probe.op = "generate" /\ Answered
    /\ probe.request.file_id \in store
    /\ probe.request.chart_type \in DOMAIN ContractTable
    /\ isChartAvailable(probe.request.chart_type)

ProbeDataset == Dataset(probe.request.file_id)

OmitsRequired(r, slot) ==
    /\ ContractTable[r.chart_type][slot].requirement = "required"
    /\ ~Has(r, SlotKey(slot))

\* every slot before Slots[i] passes its check
EarlierPass(ds, r, i) ==
    \A j \in 1 .. (i - 1) :
        CheckSlot(ds, r.chart_type, r, Slots[j]).error = ""

\* a 400 and no chart
Rejected(resp) ==
    /\ resp.status = 400
    /\ ~resp.success
    /\ resp.chart_url = ""
    /\ resp.error \in ValidationErrors

\* C5 as stated: a request that omits a required slot is rejected with a
\* missing-column error.
C5_OmittedSlotIsMissingColumnError ==
    Validated =>
        \A i \in DOMAIN Slots :
            OmitsRequired(probe.request, Slots[i]) =>
                /\ Rejected(probe.response)
                /\ probe.response.error = "MissingColumnError"

\* C5: for every chart type of the contract table, a request that omits a
\* required slot is rejected with a 400 validation error and no chart is
\* produced; the error is MissingColumnError for that slot when every slot
\* before it (in the order x, y, color, size) passes its check, and a bar
\* request with no x column always fails with 'x_column required for bar
\* chart'.
C5_OmittedSlotRejected ==
    Validated =>
        /\ \A i \in DOMAIN Slots :
              OmitsRequired(probe.request, Slots[i]) =>
                  /\ Rejected(probe.response)
                  /\ EarlierPass(ProbeDataset, probe.request, i) =>
                        /\ probe.response.error = "MissingColumnError"
                        /\ probe.response.detail =
                              SlotKey(Slots[i]) \o " required for "
                                  \o probe.request.chart_type \o " chart"
        /\ (probe.request.chart_type = "bar"
              /\ ~Has(probe.request, "x_column")) =>
                  /\ probe.response.error = "MissingColumnError"
                  /\ probe.response.detail = "x_column required for bar chart"

C5_Witness ==
    /\ Validated
    /\ probe.request.chart_type = "bar"
    /\ ~Has(probe.request, "x_column")
    /\ Has(probe.request, "y_columns")
    /\ probe.response.status = 400
    /\ probe.response.detail = "x_column required for bar chart"

\* the request supplies, in a slot whose kind constraint is numeric, a
\* column of the dataset that is categorical
CategoricalInNumericSlot(ds, r, slot) ==
    /\ ContractTable[r.chart_type][slot].kindConstraint = "numeric"
    /\ \E c \in Range(SlotValues(r, slot)) :
          Includes(ds.columns, c) /\ KindOf(ds, c) = "categorical"

AllExist(ds, r, slot) ==
    \A c \in Range(SlotValues(r, slot)) : Includes(ds.columns, c)

Answers(i) == Responses(store, genInFlight[i])

C8_DetailShownVerbatim ==
    [][ /\ \A i \in DOMAIN genInFlight :
             \A resp \in Answers(i) \cup {NetworkError} :
                (GenerateResponds(i, resp) /\ resp.status # 200) =>
                    /\ View(isGenerating', error', chartData') = "error"
                    /\ resp.detail # "" => error' = resp.detail
                    /\ resp.detail = "" => error' = "Chart generation failed"
        /\ \A detail \in UploadDetails :
             UploadFails(detail) =>
                 /\ detail # "" => uploadError' = detail
                 /\ detail = "" => uploadError' = "Upload failed" ]_vars

C8_Witness ==
    /\ error = "x_column required for bar chart"
    /\ View(isGenerating, error, chartData) = "error"
    /\ uploadError = "File type .txt not allowed"

\* C10: a generate request, or a file-info request, whose file identifier
\* is not a dataset the backend holds is answered with UnknownDatasetError,
\* status 404 and 'File not found', and no other request is answered with
\* 404; no chart is produced and the front end leaves chartData as it was.
C10_UnknownFileIs404 ==
    [][ /\ \A i \in DOMAIN genInFlight : \A resp \in Answers(i) :
             GenerateResponds(i, resp) =>
                 IF genInFlight[i].file_id \in store
                 THEN resp.status \in {200, 400, 500}
                 ELSE /\ resp.error = "UnknownDatasetError"
                      /\ resp.status = 404
                      /\ resp.detail = "File not found"
                      /\ ~resp.success
                      /\ resp.chart_url = ""
                      /\ chartData' = chartData
                      /\ error' = "File not found"
        /\ \A id \in ProbeFiles :
             LET info == BackendFileInfo(store, id) IN
             IF id \in store
             THEN info.status = 200
             ELSE /\ info.error = "UnknownDatasetError"
                  /\ info.status = 404
                  /\ info.detail = "File not found" ]_vars

C10_Witness ==
    /\ error = "File not found"
    /\ chartData # NoChart
    /\ genInFlight = <<>>
    /\ store = {}
    /\ BackendFileInfo(store, "f1").status = 404

\* the columns a request supplies in the slots the contract row of its
\* chart type marks required or optional
SuppliedIn(r, slot) ==
    IF ContractTable[r.chart_type][slot].requirement
           \in {"required", "optional"}
    THEN SlotValues(r, slot) ELSE <<>>

ExpectedColumns(r) ==
    SuppliedIn(r, "x") \o SuppliedIn(r, "y") \o SuppliedIn(r, "color")
        \o SuppliedIn(r, "size")

C12_ChartOfLoadedFile ==
    [][ /\ \A f \in AppFiles : UploadSucceeds(f) => chartData' = NoChart
        /\ \A i \in DOMAIN genInFlight : \A resp \in Answers(i) :
              (GenerateResponds(i, resp) /\ resp.success) =>
                  genInFlight[i].file_id = FileId(fileData) ]_vars

\* C13: whenever at least one generateChart call awaits its response,
\* isGenerating is true, so that ChartDisplay shows the generating view.
C13_GeneratingWhileInFlight ==
    genInFlight # <<>> =>
        /\ isGenerating
        /\ View(isGenerating, error, chartData) = "generating"

\* every way a call can end
Outcomes(i) == Answers(i) \cup {NetworkError, Unsuccessful}

\* C14: a call that was submitted before a call that has already ended
\* never overwrites chartData or error when it ends itself, so that once
\* all overlapping calls have ended the user sees the outcome of the call
\* submitted last.
C14_LatestRequestWins ==
    [][ \A i \in DOMAIN genInFlight : \A resp \in Outcomes(i) :
           (GenerateResponds(i, resp) /\ i <= overtaken) =>
               /\ chartData' = chartData
               /\ error' = error ]_vars

\* C15: every generate attempt sets isGenerating to true and is followed,
\* when its call ends, by isGenerating being false, whether the call ends
\* in success, in an answer without success, or in a thrown error; once
\* no call awaits its response isGenerating is false.
C15_GeneratingEnds ==
    /\ [][ \A i \in DOMAIN genInFlight : \A resp \in Outcomes(i) :
             GenerateResponds(i, resp) => ~isGenerating' ]_vars
    /\ [](genInFlight = <<>> => ~isGenerating)
    /\ (isGenerating ~> ~isGenerating)

C15_Witness ==
    /\ genInFlight = <<>>
    /\ ~isGenerating
    /\ error = "Chart generation failed"
    /\ chartData # NoChart

\* C16: every call that ends leaves a visible outcome: chartData is the
\* result of that call, or error is not null.
C16_VisibleOutcome ==
    [][ \A i \in DOMAIN genInFlight : \A resp \in Outcomes(i) :
           GenerateResponds(i, resp) =>
               \/ /\ resp.success
                  /\ chartData' =
                        [resp EXCEPT !.chart_url = getChartUrl(resp.chart_url)]
               \/ error' # NULL ]_vars

\* the values of isGenerating and error ChartDisplay can be given
NoError == {NULL, ""}
ErrorProps == NoError \cup {error, "No file uploaded"}

\* C17: ChartDisplay shows one of four views by strict priority: the
\* generating view whenever isGenerating is true, whatever error and
\* chartData are; otherwise the error view whenever error is not empty,
\* even with a chart; otherwise the empty view when chartData is null; the
\* chart only when isGenerating is false, error is empty and chartData is
\* not null.
C17_ViewPriority ==
    \A generating \in BOOLEAN : \A err \in ErrorProps :
        LET view == View(generating, err, chartData) IN
        /\ view \in {"generating", "error", "empty", "chart"}
        /\ generating => view = "generating"
        /\ (~generating /\ err \notin NoError) => view = "error"
        /\ (~generating /\ err \in NoError /\ chartData = NoChart)
              => view = "empty"
        /\ view = "chart" <=>
              (~generating /\ err \in NoError /\ chartData # NoChart)

C17_Witness ==
    /\ ~isGenerating
    /\ error = "File not found"
    /\ chartData # NoChart
    /\ View(isGenerating, error, chartData) = "error"
    /\ View(TRUE, error, chartData) = "generating"

\* C18: whenever the selected chart type changes to a different value, by
\* the dropdown, by a click on a recommendation or by the automatic
\* selection of the first recommendation, the column selections are reset.
C18_ColumnsResetOnChartChange ==
    [][ selectedChart' # selectedChart =>
           /\ xColumn' = ""
           /\ yColumns' = <<>>
           /\ colorColumn' = "" ]_vars

\* C19: a request supplies a value only in the slots the form shows for
\* its chart type: x_column for the types of XTypes, y_columns for the
\* types of YTypes, color_column for scatter and violin.
C19_OnlyExposedSlots ==
    \A r \in Requests :
        /\ Has(r, "x_column") => r.chart_type \in XTypes
        /\ Has(r, "y_columns") => r.chart_type \in YTypes
        /\ Has(r, "color_column") => r.chart_type \in ColorTypes

\* C20: a request for a chart type whose y control is the single-value
\* dropdown (bar, scatter, pie) carries at most one y column.
C20_SingleYColumn ==
    \A r \in Requests :
        (r.chart_type \in {"bar", "scatter", "pie"} /\ Has(r, "y_columns"))
            => Len(r.y_columns) <= 1

\* C21: whenever at least one upload started by uploadFile awaits its
\* response isUploading is true, and once none does isUploading is false.
C21_UploadingWhileInFlight ==
    /\ upInFlight > 0 => isUploading
    /\ upInFlight = 0 => ~isUploading

C23_ChartReplacedWholesale ==
    [][ \A i \in DOMAIN genInFlight : \A resp \in Answers(i) :
           (GenerateResponds(i, resp) /\ resp.success) =>
               /\ DOMAIN chartData' = DOMAIN resp
               /\ \A field \in DOMAIN resp \ {"chart_url"} :
                     chartData'[field] = resp[field]
               /\ chartData'.chart_url =
                     "http://localhost:8000" \o resp.chart_url
               /\ chartData'.chart_type = genInFlight[i].chart_type ]_vars

C23_Witness ==
    /\ chartData.success
    /\ chartData.chart_url = "http://localhost:8000/charts/chart_2.png"
    /\ chartData.chart_type = "bar"
    /\ chartData.caption = "caption of bar"
    /\ chartData.columns_used = <<"Category", "Value">>
    /\ error = NULL
    /\ genInFlight = <<>>

\* the file's ai_recommendations is missing, {available: false} or has an
\* empty recommendations list
Degraded(f) ==
    /\ f # NoFile
    /\ \/ Uploads[f].ai_recommendations.kind \in {"missing", "unavailable"}
       \/ Uploads[f].ai_recommendations.recommendations = <<>>

\* C9: an upload whose ai_recommendations is missing, unavailable or empty
\* sets no error and selects no chart type, and with such a file loaded the
\* user can select every implemented chart type and Generate then sends a
\* request for it.
C9_DegradedAIDoesNotBlock ==
    /\ [][ \A f \in DOMAIN Uploads :
             (UploadSucceeds(f) /\ Degraded(f)) =>
                 /\ selectedChart' = selectedChart
                 /\ error' = error ]_vars
    /\ [](Degraded(fileData) =>
            \A i \in DOMAIN CHART_TYPES :
               LET t == CHART_TYPES[i].id IN
               /\ selectedChart # t =>
                     ENABLED (handleChartChange /\ selectedChart' = t)
               /\ selectedChart = t =>
                     ENABLED (GenerateButton /\ Sends /\ Sent.chart_type = t))

C9_Witness ==
    /\ Degraded(fileData)
    /\ Len(genInFlight) = 1
    /\ genInFlight[1].file_id = FileId(fileData)
    /\ genInFlight[1].chart_type = "heatmap"
    /\ error = NULL
====
